---- MODULE Spec2Model ----
(***************************************************************************)
(* Ghost/survivor maze game (src/game.js): the maze generator, the ghost's *)
(* breadth-first pursuit, the survivors' timers and the round controller.  *)
(*                                                                         *)
(* Cell values are the ones the source stores in its `maze` array:         *)
(* generateMaze fills the array with 1 ("Initialize maze with walls") and  *)
(* carves passages by storing 0 ("Make the wall a passage").               *)
(***************************************************************************)
EXTENDS Integers, Sequences, FiniteSets, TLC

VARIABLES
  phase,        \* which handler/loop of the program the state belongs to
  ROWS, COLS,   \* grid dimensions (canvas size / TILE_SIZE), the rows/cols of generateMaze
  maze,         \* maze[r][c] \in {0, 1}
  walls,        \* generateMaze's list of frontier entries {r, c, dr, dc}
  ghostSpeed,   \* the global ghostSpeed, set by the speed slider
  speedDisabled,\* speedRange.disabled
  role,         \* Game.role: "ghost" (AI ghost) or "ghost-controlled" (keyboard ghost)
  ghost,        \* Ghost: [row, col, speed]
  survivors,    \* Game.survivors: sequence of Survivor records
  gameOver,     \* Game.gameOver
  message,      \* Game.message
  intervalOn,   \* Game.gameInterval is set and not cleared
  startDisabled,\* startButton.disabled
  endDisabled,  \* endButton.disabled
  ticks,        \* number of update() calls of the current round
  rounds,       \* number of rounds started since the page was loaded
  keys,         \* number of keydown events since the round started (counted in SpecLong)
  lastEvent     \* the handler that ran last

vars == <<phase, ROWS, COLS, maze, walls, ghostSpeed, speedDisabled, role, ghost,
          survivors, gameOver, message, intervalOn, startDisabled, endDisabled,
          ticks, rounds, keys, lastEvent>>

roundVars == <<ghostSpeed, speedDisabled, role, ghost, survivors, gameOver, message,
               intervalOn, startDisabled, endDisabled, ticks, rounds, keys, lastEvent>>

(***************************************************************************)
(* Bounds of the model.                                                    *)
(***************************************************************************)
MaxMazeRows == 8
MaxMazeCols == 8
PathRows == 2
PathCols == 3
MaxSpeed == 2
RoundRows == 3
RoundCols == 4
MaxSurvivors == 2
MaxTicks == 5
MaxRounds == 1
LongRows == 3
LongCols == 3
LongSurvivors == 1
LongTicks == 62
MaxKeys == 2
ChaseRows == 3
ChaseCols == 4
ChaseSurvivors == 2
LadderCols == 31
ChaseTicks == 45

(***************************************************************************)
(* Grid helpers.                                                           *)
(***************************************************************************)
InBounds(rows, cols, r, c) == r >= 0 /\ r < rows /\ c >= 0 /\ c < cols

Cells(rows, cols) == (0 .. rows - 1) \X (0 .. cols - 1)

\* maze[r][c] = v
SetCell(m, r, c, v) == [m EXCEPT ![r][c] = v]

\* The two encodings the source uses for one and the same array.
\* generateMaze: 1 is a wall, 0 is a carved passage.
IsWall(m, r, c) == m[r][c] = 1
IsOpen(m, r, c) == m[r][c] = 0
\* getRandomPosition, Ghost.move, Ghost.handleKeyPress, Survivor.move: an
\* entity may stand on / step onto a cell iff it holds 1.
Walkable(m, r, c) == m[r][c] = 1

(***************************************************************************)
(* generateMaze(rows, cols)                                                *)
(***************************************************************************)
MazeDirections ==
  << [dr |-> -2, dc |-> 0], [dr |-> 2, dc |-> 0],
     [dr |-> 0, dc |-> -2], [dr |-> 0, dc |-> 2] >>

StartRow == 1
StartCol == 1

\* Array.from({length: rows}, () => Array(cols).fill(1)); maze[1][1] = 0
InitialMaze(rows, cols) ==
  SetCell([r \in 0 .. rows - 1 |-> [c \in 0 .. cols - 1 |-> 1]], StartRow, StartCol, 0)

\* directions.forEach: push the in-bounds cells two steps from (row, col);
\* `needWall` is the extra test maze[nr][nc] === 1 of the second forEach.
RECURSIVE PushWalls(_, _, _, _, _, _, _, _)
PushWalls(m, rows, cols, row, col, needWall, i, acc) ==
  IF i > Len(MazeDirections) THEN acc
  ELSE LET d  == MazeDirections[i]
           nr == row + d.dr
           nc == col + d.dc
           ok == /\ InBounds(rows, cols, nr, nc)
                 /\ (needWall => m[nr][nc] = 1)
       IN PushWalls(m, rows, cols, row, col, needWall, i + 1,
                    IF ok THEN Append(acc, [r |-> nr, c |-> nc, dr |-> d.dr, dc |-> d.dc])
                    ELSE acc)

InitialWalls(rows, cols) ==
  PushWalls(InitialMaze(rows, cols), rows, cols, StartRow, StartCol, FALSE, 1, << >>)

\* walls.splice(randomIndex, 1), with 1-based idx
Splice(seq, idx) == SubSeq(seq, 1, idx - 1) \o SubSeq(seq, idx + 1, Len(seq))

\* the test of the `if` in the while loop
CanCarve(m, rows, cols, wall) ==
  LET oppositeRow == wall.r + wall.dr
      oppositeCol == wall.c + wall.dc
  IN /\ InBounds(rows, cols, oppositeRow, oppositeCol)
     /\ m[oppositeRow][oppositeCol] = 1

\* an iteration that removes the entry only when it carved (splice inside the if)
CarveStepKeepsRefused(m, ws, rows, cols, idx) ==
  LET wall        == ws[idx]
      oppositeRow == wall.r + wall.dr
      oppositeCol == wall.c + wall.dc
  IN IF CanCarve(m, rows, cols, wall)
     THEN LET m2 == SetCell(SetCell(m, wall.r, wall.c, 0), oppositeRow, oppositeCol, 0)
              w2 == PushWalls(m2, rows, cols, oppositeRow, oppositeCol, TRUE, 1, ws)
          IN [maze |-> m2, walls |-> Splice(w2, idx)]
     ELSE [maze |-> m, walls |-> ws]

\* One iteration of `while (walls.length > 0)` with randomIndex = idx - 1.
CarveStep(m, ws, rows, cols, idx) ==
  LET wall        == ws[idx]
      oppositeRow == wall.r + wall.dr
      oppositeCol == wall.c + wall.dc
  IN IF CanCarve(m, rows, cols, wall)
     THEN LET m2 == SetCell(SetCell(m, wall.r, wall.c, 0), oppositeRow, oppositeCol, 0)
              w2 == PushWalls(m2, rows, cols, oppositeRow, oppositeCol, TRUE, 1, ws)
          IN [maze |-> m2, walls |-> Splice(w2, idx)]
     ELSE [maze |-> m, walls |-> Splice(ws, idx)]

\* a border pass that stops one row short (r < rows - 1, c-loop without the last row)
SetBordersShort(m, rows, cols) ==
  [r \in 0 .. rows - 1 |->
     [c \in 0 .. cols - 1 |->
        IF r = 0 \/ (r < rows - 1 /\ (c = 0 \/ c = cols - 1)) THEN 1 ELSE m[r][c]]]

\* "Set borders as walls": the two for loops before `return maze`
SetBorders(m, rows, cols) ==
  [r \in 0 .. rows - 1 |->
     [c \in 0 .. cols - 1 |->
        IF r = 0 \/ r = rows - 1 \/ c = 0 \/ c = cols - 1 THEN 1 ELSE m[r][c]]]

\* The set of mazes generateMaze(rows, cols) can return, over all random choices.
RECURSIVE GenerateFrom(_, _, _, _)
GenerateFrom(m, ws, rows, cols) ==
  IF Len(ws) = 0 THEN { SetBorders(m, rows, cols) }
  ELSE UNION { LET s == CarveStep(m, ws, rows, cols, idx)
               IN GenerateFrom(s.maze, s.walls, rows, cols) : idx \in 1 .. Len(ws) }

generateMaze(rows, cols) ==
  GenerateFrom(InitialMaze(rows, cols), InitialWalls(rows, cols), rows, cols)

(***************************************************************************)
(* distance(a, b): Math.sqrt of the squared distance; the square root is   *)
(* strictly increasing, so comparing squares compares distances.           *)
(***************************************************************************)
DistanceSq(a, b) == (a.row - b.row) * (a.row - b.row) + (a.col - b.col) * (a.col - b.col)

\* a reduce that also replaces on an equal distance (<= for <)
RECURSIVE NearestFromLast(_, _, _, _)
NearestFromLast(g, targets, i, prev) ==
  IF i > Len(targets) THEN prev
  ELSE NearestFromLast(g, targets, i + 1,
                       IF DistanceSq(g, targets[i]) <= DistanceSq(g, prev)
                       THEN targets[i] ELSE prev)

\* targets.reduce((prev, curr) => distance(this, curr) < distance(this, prev) ? curr : prev)
RECURSIVE NearestFrom(_, _, _, _)
NearestFrom(g, targets, i, prev) ==
  IF i > Len(targets) THEN prev
  ELSE NearestFrom(g, targets, i + 1,
                   IF DistanceSq(g, targets[i]) < DistanceSq(g, prev) THEN targets[i] ELSE prev)

Nearest(g, targets) == NearestFrom(g, targets, 2, targets[1])

(***************************************************************************)
(* Ghost.move: breadth-first search from the ghost's cell.                 *)
(***************************************************************************)
MoveDirections ==
  << [dr |-> -1, dc |-> 0], [dr |-> 1, dc |-> 0],
     [dr |-> 0, dc |-> -1], [dr |-> 0, dc |-> 1] >>

\* prevMap's null
NullCell == [r |-> -1, c |-> -1]

\* the test that lets the search enter cell (nr, nc)
CanVisit(m, rows, cols, visited, nr, nc) ==
  /\ InBounds(rows, cols, nr, nc)
  /\ m[nr][nc] = 1
  /\ ~visited[nr][nc]

\* `for (let dir of directions)` for one dequeued cell; s = [queue, visited, prevMap]
RECURSIVE Expand(_, _, _, _, _, _)
Expand(m, rows, cols, current, i, s) ==
  IF i > Len(MoveDirections) THEN s
  ELSE LET nr == current.r + MoveDirections[i].dr
           nc == current.c + MoveDirections[i].dc
       IN Expand(m, rows, cols, current, i + 1,
                 IF CanVisit(m, rows, cols, s.visited, nr, nc)
                 THEN [queue   |-> Append(s.queue, [r |-> nr, c |-> nc]),
                       visited |-> [s.visited EXCEPT ![nr][nc] = TRUE],
                       prevMap |-> [s.prevMap EXCEPT ![nr][nc] = current]]
                 ELSE s)

\* `while (queue.length > 0)`: shift, stop at the target, else expand
RECURSIVE SearchLoop(_, _, _, _, _)
SearchLoop(m, rows, cols, target, s) ==
  IF Len(s.queue) = 0 THEN s
  ELSE LET current == Head(s.queue)
           rest    == [s EXCEPT !.queue = Tail(s.queue)]
       IN IF current.r = target.row /\ current.c = target.col THEN rest
          ELSE SearchLoop(m, rows, cols, target, Expand(m, rows, cols, current, 1, rest))

\* queue, visited and prevMap when the while loop ends
Search(m, rows, cols, g, target) ==
  SearchLoop(m, rows, cols, target,
             [queue   |-> << [r |-> g.row, c |-> g.col] >>,
              visited |-> [r \in 0 .. rows - 1 |->
                             [c \in 0 .. cols - 1 |-> r = g.row /\ c = g.col]],
              prevMap |-> [r \in 0 .. rows - 1 |-> [c \in 0 .. cols - 1 |-> NullCell]]])

\* "Reconstruct path": push current, step to prevMap, break on null
RECURSIVE Reconstruct(_, _, _, _)
Reconstruct(prevMap, g, current, path) ==
  IF ~(current.r # g.row \/ current.c # g.col) THEN path
  ELSE LET pushed == Append(path, current)
           before == prevMap[current.r][current.c]
       IN IF before = NullCell THEN pushed
          ELSE Reconstruct(prevMap, g, before, pushed)

Reverse(seq) == [i \in 1 .. Len(seq) |-> seq[Len(seq) + 1 - i]]

\* the `path` of Ghost.move after path.reverse()
FindPath(m, rows, cols, g, target) ==
  Reverse(Reconstruct(Search(m, rows, cols, g, target).prevMap, g,
                      [r |-> target.row, c |-> target.col], << >>))

\* a move loop whose body never runs (i < 0)
AdvanceNever(g, path, i) == g

\* a move loop that runs once too often (i <= this.speed)
RECURSIVE AdvanceOneMore(_, _, _)
AdvanceOneMore(g, path, i) ==
  IF i > g.speed THEN g
  ELSE IF Len(path) > 0
       THEN AdvanceOneMore([g EXCEPT !.row = path[1].r, !.col = path[1].c], Tail(path), i + 1)
       ELSE AdvanceOneMore(g, path, i + 1)

\* "Move Ghost according to its speed": speed times, take path[0] and shift
RECURSIVE Advance(_, _, _)
Advance(g, path, i) ==
  IF i >= g.speed THEN g
  ELSE IF Len(path) > 0
       THEN Advance([g EXCEPT !.row = path[1].r, !.col = path[1].c], Tail(path), i + 1)
       ELSE Advance(g, path, i + 1)

\* Ghost.move(targets, maze)
GhostMove(g, targets, m, rows, cols) ==
  IF Len(targets) = 0 THEN g
  ELSE Advance(g, FindPath(m, rows, cols, g, Nearest(g, targets)), 0)

(***************************************************************************)
(* Survivor                                                                *)
(***************************************************************************)
InitialHp == 3

\* new Survivor(row, col); `id` is the identity of the created object
NewSurvivor(id, row, col) ==
  [id |-> id, row |-> row, col |-> col, hp |-> InitialHp, isHypnotized |-> FALSE,
   hypnosisTimer |-> 0, moveCounter |-> 0]

HypnosisTicks == 60
MoveInterval == 30

\* the orders the in-place shuffle of the four directions can produce
\* (every j in 0..i is possible at each swap, so every permutation is)
ShuffledOrders ==
  { p \in [1 .. 4 -> 1 .. 4] : \A i, j \in 1 .. 4 : i # j => p[i] # p[j] }

\* the test that lets a survivor step onto (newRow, newCol)
CanStep(m, rows, cols, newRow, newCol) ==
  /\ InBounds(rows, cols, newRow, newCol)
  /\ m[newRow][newCol] = 1

\* `for (let dir of directions)`: take the first direction that passes the test
RECURSIVE FirstStep(_, _, _, _, _, _)
FirstStep(s, m, rows, cols, order, i) ==
  IF i > 4 THEN s
  ELSE LET dir    == MoveDirections[order[i]]
           newRow == s.row + dir.dr
           newCol == s.col + dir.dc
       IN IF CanStep(m, rows, cols, newRow, newCol)
          THEN [s EXCEPT !.row = newRow, !.col = newCol]
          ELSE FirstStep(s, m, rows, cols, order, i + 1)

\* a move whose hypnosis branch does not return: the cooldown runs on
SurvivorMoveNoReturn(s, m, rows, cols) ==
  LET t == IF s.isHypnotized
           THEN [s EXCEPT !.hypnosisTimer = s.hypnosisTimer - 1,
                          !.isHypnotized = ~(s.hypnosisTimer - 1 <= 0)]
           ELSE s
  IN IF t.moveCounter < MoveInterval
     THEN { [t EXCEPT !.moveCounter = t.moveCounter + 1] }
     ELSE { FirstStep([t EXCEPT !.moveCounter = 0], m, rows, cols, order, 1) :
              order \in ShuffledOrders }

\* Survivor.move(maze): the survivor after the call, for each shuffle outcome
SurvivorMove(s, m, rows, cols) ==
  IF s.isHypnotized
  THEN { [s EXCEPT !.hypnosisTimer = s.hypnosisTimer - 1,
                   !.isHypnotized = ~(s.hypnosisTimer - 1 <= 0)] }
  ELSE IF s.moveCounter < MoveInterval
  THEN { [s EXCEPT !.moveCounter = s.moveCounter + 1] }
  ELSE { FirstStep([s EXCEPT !.moveCounter = 0], m, rows, cols, order, 1) :
           order \in ShuffledOrders }

\* this.survivors.forEach((survivor) => survivor.move(this.maze))
RECURSIVE MoveAll(_, _, _, _)
MoveAll(survs, m, rows, cols) ==
  IF Len(survs) = 0 THEN { << >> }
  ELSE { <<h>> \o t : h \in SurvivorMove(Head(survs), m, rows, cols),
                      t \in MoveAll(Tail(survs), m, rows, cols) }

(***************************************************************************)
(* Game.checkCollisions: Array.prototype.forEach visits the indices        *)
(* 0 .. len-1 of the length read before the first call and skips an index  *)
(* that is no longer in the array; the callback splices the array it is    *)
(* iterating.                                                              *)
(***************************************************************************)
\* a hit that takes the hp but does not hypnotize
HitNoHypnosis(s) == [s EXCEPT !.hp = s.hp - 1]

Hit(s) == [s EXCEPT !.hp = s.hp - 1, !.isHypnotized = TRUE, !.hypnosisTimer = HypnosisTicks]

OnGhost(s, g) == s.row = g.row /\ s.col = g.col

\* a callback that removes a survivor only below 0 hp (hp < 0 for hp <= 0)
RECURSIVE CollideFromLate(_, _, _, _)
CollideFromLate(survs, g, index, len) ==
  IF index >= len THEN survs
  ELSE IF index >= Len(survs) THEN CollideFromLate(survs, g, index + 1, len)
  ELSE LET survivor == survs[index + 1]
       IN IF OnGhost(survivor, g)
          THEN LET hit == [survs EXCEPT ![index + 1] = Hit(survivor)]
               IN IF hit[index + 1].hp < 0
                  THEN CollideFromLate(Splice(hit, index + 1), g, index + 1, len)
                  ELSE CollideFromLate(hit, g, index + 1, len)
          ELSE CollideFromLate(survs, g, index + 1, len)

RECURSIVE CollideFrom(_, _, _, _)
CollideFrom(survs, g, index, len) ==
  IF index >= len THEN survs
  ELSE IF index >= Len(survs) THEN CollideFrom(survs, g, index + 1, len)
  ELSE LET survivor == survs[index + 1]
       IN IF OnGhost(survivor, g)
          THEN LET hit == [survs EXCEPT ![index + 1] = Hit(survivor)]
               IN IF hit[index + 1].hp <= 0
                  THEN CollideFrom(Splice(hit, index + 1), g, index + 1, len)
                  ELSE CollideFrom(hit, g, index + 1, len)
          ELSE CollideFrom(survs, g, index + 1, len)

checkCollisions(survs, g) == CollideFrom(survs, g, 0, Len(survs))

(***************************************************************************)
(* Values the variables of a round hold before any round exists.           *)
(***************************************************************************)
NoGhost == [row |-> 0, col |-> 0, speed |-> 0]

DefaultGhostSpeed == 2

NoRound ==
  /\ ghostSpeed = DefaultGhostSpeed
  /\ speedDisabled = FALSE
  /\ role = "ghost"
  /\ ghost = NoGhost
  /\ survivors = << >>
  /\ gameOver = FALSE
  /\ message = ""
  /\ intervalOn = FALSE
  /\ startDisabled = FALSE
  /\ endDisabled = TRUE
  /\ ticks = 0
  /\ rounds = 0
  /\ keys = 0
  /\ lastEvent = "none"

(***************************************************************************)
(* SpecMaze: one call generateMaze(rows, cols), one loop iteration a step. *)
(***************************************************************************)
InitMaze ==
  /\ ROWS \in 5 .. MaxMazeRows
  /\ COLS \in 5 .. MaxMazeCols
  /\ phase = "generating"
  /\ maze = InitialMaze(ROWS, COLS)
  /\ walls = InitialWalls(ROWS, COLS)
  /\ NoRound

\* one iteration of the while loop
CarveWall ==
  /\ phase = "generating"
  /\ Len(walls) > 0
  /\ \E idx \in 1 .. Len(walls) :
        LET s == CarveStep(maze, walls, ROWS, COLS, idx)
        IN /\ maze' = s.maze
           /\ walls' = s.walls
  /\ UNCHANGED <<phase, ROWS, COLS, roundVars>>

\* loop exit, border loops, return
ReturnMaze ==
  /\ phase = "generating"
  /\ Len(walls) = 0
  /\ maze' = SetBorders(maze, ROWS, COLS)
  /\ phase' = "returned"
  /\ UNCHANGED <<ROWS, COLS, walls, roundVars>>

NextMaze == CarveWall \/ ReturnMaze

SpecMaze == InitMaze /\ [][NextMaze]_vars

\* the call runs on: a loop iteration or the return is taken whenever one is due
SpecMazeFair == SpecMaze /\ WF_vars(NextMaze)

(***************************************************************************)
(* SpecPath: one call ghost.move([target], maze) on an arbitrary grid,     *)
(* from an arbitrary cell towards an arbitrary cell.                       *)
(***************************************************************************)
InitPath ==
  /\ ROWS = PathRows
  /\ COLS = PathCols
  /\ phase = "path"
  /\ maze \in [0 .. PathRows - 1 -> [0 .. PathCols - 1 -> {0, 1}]]
  /\ walls = << >>
  /\ ghostSpeed \in 1 .. MaxSpeed
  /\ speedDisabled = FALSE
  /\ role = "ghost"
  /\ \E x \in Cells(PathRows, PathCols) :
        ghost = [row |-> x[1], col |-> x[2], speed |-> ghostSpeed]
  /\ \E x \in Cells(PathRows, PathCols) : survivors = << NewSurvivor(1, x[1], x[2]) >>
  /\ gameOver = FALSE
  /\ message = ""
  /\ intervalOn = FALSE
  /\ startDisabled = FALSE
  /\ endDisabled = TRUE
  /\ ticks = 0
  /\ rounds = 0
  /\ keys = 0
  /\ lastEvent = "none"

\* this.ghost.move(this.survivors, this.maze)
PathMove ==
  /\ phase = "path"
  /\ ghost' = GhostMove(ghost, survivors, maze, ROWS, COLS)
  /\ phase' = "moved"
  /\ UNCHANGED <<ROWS, COLS, maze, walls, ghostSpeed, speedDisabled, role, survivors,
                 gameOver, message, intervalOn, startDisabled, endDisabled, ticks,
                 rounds, keys, lastEvent>>

NextPath == PathMove

SpecPath == InitPath /\ [][NextPath]_vars

(***************************************************************************)
(* Spec: the page with its handlers: speed slider, start button, the       *)
(* 60 Hz interval calling Game.update, keydown, end button.                *)
(***************************************************************************)
Init ==
  /\ ROWS = RoundRows
  /\ COLS = RoundCols
  /\ phase = "idle"
  /\ maze = << >>
  /\ walls = << >>
  /\ NoRound

\* a getRandomPosition without its do-while test: any cell of the grid
RandomPositionsAnyCell(m, rows, cols) == Cells(rows, cols)

\* the cells getRandomPosition can return: its loop repeats while the cell holds 0
RandomPositions(m, rows, cols) == { x \in Cells(rows, cols) : ~(m[x[1]][x[2]] = 0) }

\* the survivors Game.start can create: each on a random position, a position
\* equal to the ghost's is drawn again
RECURSIVE Placements(_, _, _)
Placements(positions, g, n) ==
  IF n = 0 THEN { << >> }
  ELSE { Append(before, NewSurvivor(n, x[1], x[2])) :
           before \in Placements(positions, g, n - 1),
           x \in { y \in positions : ~(y[1] = g.row /\ y[2] = g.col) } }

\* Game.endGame(message)
EndGame(msg) ==
  /\ gameOver' = TRUE
  /\ intervalOn' = FALSE
  /\ message' = msg
  /\ startDisabled' = FALSE
  /\ endDisabled' = TRUE

\* speedRange "input" listener
SpeedInput ==
  /\ phase \in {"idle", "playing"}
  /\ ~speedDisabled
  /\ \E v \in 1 .. MaxSpeed : ghostSpeed' = v
  /\ lastEvent' = "speed"
  /\ UNCHANGED <<phase, ROWS, COLS, maze, walls, speedDisabled, role, ghost, survivors,
                 gameOver, message, intervalOn, startDisabled, endDisabled, ticks,
                 rounds, keys>>

\* startButton "click" listener: new Game(role, ghostSpeed); game.start(),
\* with maxSurvivors = n and roleSelect.value = selected
StartAs(n, selected) ==
  /\ phase \in {"idle", "playing"}
  /\ ~startDisabled
  /\ rounds < MaxRounds
  /\ rounds' = rounds + 1
  /\ keys' = 0
  /\ role' = IF selected = "ghost" THEN "ghost-controlled" ELSE "ghost"
  /\ speedDisabled' = TRUE
  /\ startDisabled' = TRUE
  /\ endDisabled' = FALSE
  /\ maze' \in generateMaze(ROWS, COLS)
  /\ gameOver' = FALSE
  /\ message' = ""
  /\ \E x \in RandomPositions(maze', ROWS, COLS) :
        ghost' = [row |-> x[1], col |-> x[2], speed |-> ghostSpeed]
  /\ survivors' \in Placements(RandomPositions(maze', ROWS, COLS), ghost', n)
  /\ intervalOn' = TRUE
  /\ ticks' = 0
  /\ phase' = "playing"
  /\ lastEvent' = "start"
  /\ UNCHANGED <<ROWS, COLS, walls, ghostSpeed>>

StartWith(n) == \E selected \in {"ghost", "survivor"} : StartAs(n, selected)

StartClick == StartWith(MaxSurvivors)

\* a game-over test that is off by one
AllEliminatedOffByOne(survs) == Len(survs) <= 1


\* the test of "Check Game Over" in Game.update, on the live list
AllEliminated(survs) == Len(survs) = 0

\* the interval callback: Game.update(), for the first `limit` calls of a round
TickWithin(limit) ==
  /\ phase = "playing"
  /\ intervalOn
  /\ ticks < limit
  /\ ticks' = ticks + 1
  /\ lastEvent' = "tick"
  /\ IF gameOver
     THEN UNCHANGED <<ghost, survivors, gameOver, message, intervalOn,
                      startDisabled, endDisabled>>
     ELSE /\ ghost' = IF role = "ghost-controlled" THEN ghost
                      ELSE GhostMove(ghost, survivors, maze, ROWS, COLS)
          /\ \E moved \in MoveAll(survivors, maze, ROWS, COLS) :
                survivors' = checkCollisions(moved, ghost')
          /\ IF AllEliminated(survivors')
             THEN EndGame("Ghost Wins!")
             ELSE UNCHANGED <<gameOver, message, intervalOn, startDisabled, endDisabled>>
  /\ UNCHANGED <<phase, ROWS, COLS, maze, walls, ghostSpeed, speedDisabled, role,
                 rounds, keys>>

Tick == TickWithin(MaxTicks)

Keys == {"ArrowUp", "ArrowDown", "ArrowLeft", "ArrowRight", "Other"}

\* a keydown guard that forgets !game.gameOver
KeyAcceptedAfterGameOver == phase = "playing" /\ role = "ghost-controlled"

\* a keydown guard that forgets game.role === "ghost-controlled"
KeyAcceptedAnyRole == phase = "playing" /\ ~gameOver

\* the guard of the keydown listener
KeyAccepted == phase = "playing" /\ role = "ghost-controlled" /\ ~gameOver

\* Ghost.handleKeyPress(key, maze)
handleKeyPress(g, key, m, rows, cols) ==
  LET newRow == IF key = "ArrowUp" THEN g.row - 1
                ELSE IF key = "ArrowDown" THEN g.row + 1 ELSE g.row
      newCol == IF key = "ArrowLeft" THEN g.col - 1
                ELSE IF key = "ArrowRight" THEN g.col + 1 ELSE g.col
  IN IF key \notin {"ArrowUp", "ArrowDown", "ArrowLeft", "ArrowRight"} THEN g
     ELSE IF InBounds(rows, cols, newRow, newCol) /\ m[newRow][newCol] = 1
          THEN [g EXCEPT !.row = newRow, !.col = newCol]
          ELSE g

\* document "keydown" listener, but for the count of the events
PressKey(key) ==
  /\ phase \in {"idle", "playing"}
  /\ ghost' = IF KeyAccepted /\ key # "Other"
              THEN handleKeyPress(ghost, key, maze, ROWS, COLS)
              ELSE ghost
  /\ lastEvent' = "key"
  /\ UNCHANGED <<phase, ROWS, COLS, maze, walls, ghostSpeed, speedDisabled, role,
                 survivors, gameOver, message, intervalOn, startDisabled, endDisabled,
                 ticks, rounds>>

KeyDown(key) == PressKey(key) /\ UNCHANGED keys

\* endButton "click" listener (a disabled button dispatches no click)
EndClick ==
  /\ phase \in {"idle", "playing"}
  /\ ~endDisabled
  /\ IF phase = "playing"
     THEN EndGame("Game Ended by Player.")
     ELSE UNCHANGED <<gameOver, message, intervalOn, startDisabled, endDisabled>>
  /\ lastEvent' = "end"
  /\ UNCHANGED <<phase, ROWS, COLS, maze, walls, ghostSpeed, speedDisabled, role, ghost,
                 survivors, ticks, rounds, keys>>

Next ==
  \/ SpeedInput
  \/ StartClick
  \/ Tick
  \/ \E key \in Keys : KeyDown(key)
  \/ EndClick

Spec == Init /\ [][Next]_vars

(***************************************************************************)
(* SpecLong: one round left to run for as long as the survivors' timers    *)
(* need (hypnosis 60 ticks, move cooldown 30 ticks): the page's handlers   *)
(* with one survivor and a bounded number of arrow keys.                   *)
(***************************************************************************)
InitLong ==
  /\ ROWS = LongRows
  /\ COLS = LongCols
  /\ phase = "idle"
  /\ maze = << >>
  /\ walls = << >>
  /\ NoRound

LongStart == StartWith(LongSurvivors)

LongTick == TickWithin(LongTicks)

LongKeyDown(key) ==
  /\ keys < MaxKeys
  /\ keys' = keys + 1
  /\ PressKey(key)

NextLong ==
  \/ SpeedInput
  \/ LongStart
  \/ LongTick
  \/ \E key \in {"ArrowUp", "ArrowDown", "ArrowLeft", "ArrowRight"} : LongKeyDown(key)
  \/ EndClick

SpecLong == InitLong /\ [][NextLong]_vars

(***************************************************************************)
(* SpecChase: rounds with the AI ghost (role select on "survivor"), run    *)
(* until they end.  Two arenas: a small grid with several survivors, where *)
(* the ghost has to choose between targets, and a long three-row grid with *)
(* one survivor, where the ghost can need more than 31 ticks to arrive, so *)
(* that the survivor's random walk comes into play.  The interval keeps    *)
(* calling Game.update until endGame clears it.                            *)
(***************************************************************************)
InitChase ==
  /\ ROWS = ChaseRows
  /\ COLS \in {ChaseCols, LadderCols}
  /\ phase = "idle"
  /\ maze = << >>
  /\ walls = << >>
  /\ NoRound

ChaseStart == StartAs(IF COLS = LadderCols THEN 1 ELSE ChaseSurvivors, "survivor")

ChaseTick == TickWithin(ChaseTicks)

NextChase ==
  \/ SpeedInput
  \/ ChaseStart
  \/ ChaseTick
  \/ EndClick

\* setInterval(() => this.update(), 1000 / 60): while the interval is set, one more
\* call of the callback is due; a step of NextChase that adds one to the count
\* of calls is a step of ChaseTick, which is enabled exactly when a call is due
IntervalFires ==
  /\ phase = "playing"
  /\ intervalOn
  /\ ticks < ChaseTicks
  /\ ticks' = ticks + 1

SpecChase == InitChase /\ [][NextChase]_vars /\ WF_ticks(IntervalFires)

\* the round state of the specification, read off Game.gameOver and Game.message
RoundState ==
  IF phase # "playing" THEN "NoRound"
  ELSE IF ~gameOver THEN "InProgress"
  ELSE IF message = "Ghost Wins!" THEN "GhostWins"
  ELSE "Ended"

(***************************************************************************)
(* Reachability and distance over the cells a predicate admits; used to    *)
(* state the claims, not by the program.                                   *)
(***************************************************************************)
Adjacent(a, b) ==
  \/ (a[1] = b[1] /\ (a[2] - b[2] = 1 \/ b[2] - a[2] = 1))
  \/ (a[2] = b[2] /\ (a[1] - b[1] = 1 \/ b[1] - a[1] = 1))

OpenCells(m, rows, cols) == { x \in Cells(rows, cols) : IsOpen(m, x[1], x[2]) }

WalkableCells(m, rows, cols) == { x \in Cells(rows, cols) : Walkable(m, x[1], x[2]) }

\* cells of `allowed` at 4-adjacent distance <= n from the set `seen`
RECURSIVE Grow(_, _)
Grow(allowed, seen) ==
  LET more == seen \cup { x \in allowed : \E y \in seen : Adjacent(x, y) }
  IN IF more = seen THEN seen ELSE Grow(allowed, more)

\* the cells reachable from `from` through 4-adjacent cells of `allowed`
ReachableIn(allowed, from) ==
  IF from \in allowed THEN Grow(allowed, {from}) ELSE {}

\* the least number of 4-adjacent steps from `from` to `to` inside `allowed`
\* (only asked when `to` is reachable)
RECURSIVE StepsFrom(_, _, _, _)
StepsFrom(allowed, seen, to, n) ==
  IF to \in seen THEN n
  ELSE StepsFrom(allowed,
                 seen \cup { x \in allowed : \E y \in seen : Adjacent(x, y) }, to, n + 1)

MinSteps(allowed, from, to) == StepsFrom(allowed, {from}, to, 0)

(***************************************************************************)
(* C1 (as claimed): every Open cell of a returned maze is reachable from   *)
(* (1,1) through 4-adjacent Open cells.                                    *)
(***************************************************************************)
C1_Connected ==
  phase = "returned" =>
    OpenCells(maze, ROWS, COLS) \subseteq
      ReachableIn(OpenCells(maze, ROWS, COLS), <<StartRow, StartCol>>)

(***************************************************************************)
(* C10: in a returned maze every cell of row 0, row rows-1, column 0 and   *)
(* column cols-1 is a Wall.                                                *)
(***************************************************************************)
C10_BorderIsWall ==
  phase = "returned" =>
    \A x \in Cells(ROWS, COLS) :
      (x[1] = 0 \/ x[1] = ROWS - 1 \/ x[2] = 0 \/ x[2] = COLS - 1)
        => IsWall(maze, x[1], x[2])

\* a returned 6-row maze with (3,1) carved: that carve also opened the border
\* cell (5,1), which the border pass had to close again
C10_Witness ==
  /\ phase = "returned"
  /\ ROWS = 6
  /\ IsOpen(maze, 3, 1)

(***************************************************************************)
(* C11 (as claimed): in a returned maze the number of unordered pairs of   *)
(* 4-adjacent Open cells is the number of Open cells minus 1.              *)
(***************************************************************************)
OpenPairs(m, rows, cols) ==
  { p \in SUBSET OpenCells(m, rows, cols) :
      /\ Cardinality(p) = 2
      /\ \E x, y \in p : x # y /\ Adjacent(x, y) }

C11_OpenCellsFormTree ==
  phase = "returned" =>
    Cardinality(OpenPairs(maze, ROWS, COLS)) = Cardinality(OpenCells(maze, ROWS, COLS)) - 1

(***************************************************************************)
(* C16 (as claimed): a successful carve step opens a bridge cell that is   *)
(* 4-adjacent to a cell that was already Open and a destination cell that  *)
(* is 4-adjacent to the bridge, and afterwards every Open cell is still    *)
(* reachable from (1,1) through 4-adjacent Open cells.                     *)
(***************************************************************************)
C16_CarveKeepsConnected ==
  [][ \A idx \in 1 .. Len(walls) :
        ( /\ phase = "generating"
          /\ phase' = "generating"
          /\ CanCarve(maze, ROWS, COLS, walls[idx])
          /\ maze' = CarveStep(maze, walls, ROWS, COLS, idx).maze
          /\ walls' = CarveStep(maze, walls, ROWS, COLS, idx).walls )
        => LET bridge == <<walls[idx].r, walls[idx].c>>
               dest   == <<walls[idx].r + walls[idx].dr, walls[idx].c + walls[idx].dc>>
           IN /\ \E x \in OpenCells(maze, ROWS, COLS) : Adjacent(x, bridge)
              /\ Adjacent(bridge, dest)
              /\ OpenCells(maze', ROWS, COLS) \subseteq
                   ReachableIn(OpenCells(maze', ROWS, COLS), <<StartRow, StartCol>>) ]_vars

(***************************************************************************)
(* C17 (as claimed): for all rows, cols >= 5 the carving loop never opens  *)
(* a cell of row 0, row rows-1, column 0 or column cols-1, and the final   *)
(* border pass changes no cell.                                            *)
(***************************************************************************)
BorderCells(rows, cols) ==
  { x \in Cells(rows, cols) : x[1] = 0 \/ x[1] = rows - 1 \/ x[2] = 0 \/ x[2] = cols - 1 }

C17_CarvingStaysOffBorder ==
  [][ /\ (phase = "generating" /\ phase' = "generating")
         => \A x \in BorderCells(ROWS, COLS) : ~IsOpen(maze', x[1], x[2])
      /\ (phase = "generating" /\ phase' = "returned") => maze' = maze ]_vars

(***************************************************************************)
(* The pathfinder's inputs and result in a state of SpecPath.              *)
(***************************************************************************)
CellOf(e) == <<e.row, e.col>>

PathCells(path) == [i \in 1 .. Len(path) |-> <<path[i].r, path[i].c>>]

\* the search marked the target's cell visited
SearchReaches(m, rows, cols, g, target) ==
  Search(m, rows, cols, g, target).visited[target.row][target.col]

(***************************************************************************)
(* C4 (as claimed): for every grid and every pair of cells from, to with   *)
(* `to` reachable from `from` through 4-adjacent Open cells, the path the  *)
(* ghost's pathfinder computes excludes `from`, ends in `to`, has the      *)
(* minimum number of Open steps as its length, and from, path[1], ...,     *)
(* path[n] are consecutive 4-adjacent Open cells.  Open is the value 0     *)
(* that generateMaze writes when it carves a cell.                         *)
(***************************************************************************)
C4_ShortestOpenPath ==
  phase = "path" =>
    LET from == CellOf(ghost)
        to   == CellOf(survivors[1])
        open == OpenCells(maze, ROWS, COLS)
        path == PathCells(FindPath(maze, ROWS, COLS, ghost, survivors[1]))
        full == <<from>> \o path
    IN (from \in open /\ to \in ReachableIn(open, from)) =>
         /\ Len(path) = MinSteps(open, from, to)
         /\ \A i \in 1 .. Len(path) : path[i] # from
         /\ (from # to => path[Len(path)] = to)
         /\ \A i \in 1 .. Len(full) - 1 :
              /\ Adjacent(full[i], full[i + 1])
              /\ full[i] \in open
              /\ full[i + 1] \in open

(***************************************************************************)
(* C5 (as claimed): when the search does not reach the target's cell, the  *)
(* computed path is empty and the move leaves the ghost where it was.      *)
(***************************************************************************)
C5_UnreachedMeansImmobile ==
  [][ ( /\ phase = "path"
        /\ phase' = "moved"
        /\ ~SearchReaches(maze, ROWS, COLS, ghost, survivors[1]) )
      => ( /\ FindPath(maze, ROWS, COLS, ghost, survivors[1]) = << >>
           /\ ghost' = ghost ) ]_vars

(***************************************************************************)
(* Steps of Spec that are one call of Game.update on a round in progress.  *)
(***************************************************************************)
IsTick == phase = "playing" /\ ~gameOver /\ ticks' = ticks + 1 /\ lastEvent' = "tick"

OnOpenCell(e) == InBounds(ROWS, COLS, e.row, e.col) /\ IsOpen(maze, e.row, e.col)

Ids(survs) == { survs[i].id : i \in 1 .. Len(survs) }

(***************************************************************************)
(* C2 (as claimed): during a round the ghost and every live survivor stand *)
(* on an in-bounds cell that the generated grid marks Open.                *)
(***************************************************************************)
C2_EntitiesOnOpenCells ==
  phase = "playing" =>
    /\ OnOpenCell(ghost)
    /\ \A i \in 1 .. Len(survivors) : OnOpenCell(survivors[i])

(***************************************************************************)
(* C3 (as claimed): the collision resolution of a tick hits every survivor *)
(* that shares the ghost's cell after movement exactly once (hp - 1, timer *)
(* 60), removes exactly those whose hp reached 0, and changes no other     *)
(* survivor.                                                               *)
(***************************************************************************)
ClaimedHit(s) == [s EXCEPT !.hp = s.hp - 1, !.isHypnotized = TRUE, !.hypnosisTimer = 60]

StillAlive(s) == s.hp > 0

ClaimedCollisions(moved, g) ==
  SelectSeq([i \in 1 .. Len(moved) |->
               IF OnGhost(moved[i], g) THEN ClaimedHit(moved[i]) ELSE moved[i]],
            StillAlive)

C3_EveryColocatedSurvivorHitOnce ==
  [][ IsTick =>
        \E moved \in MoveAll(survivors, maze, ROWS, COLS) :
           survivors' = ClaimedCollisions(moved, ghost') ]_vars

(***************************************************************************)
(* C6: the round is GhostWins only with an empty live set, a started round *)
(* with an empty live set is never InProgress, and the round enters        *)
(* GhostWins in the very tick that empties the live set.                   *)
(***************************************************************************)
C6_GhostWinsIffEmptied ==
  /\ [](RoundState = "GhostWins" => Len(survivors) = 0)
  /\ [](RoundState = "InProgress" => Len(survivors) > 0)
  /\ [][ (RoundState' = "GhostWins" /\ RoundState # "GhostWins")
           => (IsTick /\ Len(survivors) > 0 /\ Len(survivors') = 0) ]_vars
  /\ [][ (IsTick /\ Len(survivors') = 0) => RoundState' = "GhostWins" ]_vars

\* a tick has just removed the last survivor and ended the round
C6_Witness ==
  /\ RoundState = "GhostWins"
  /\ lastEvent = "tick"
  /\ Len(survivors) = 0

(***************************************************************************)
(* C7: once the round is GhostWins or Ended, no tick, key press or end     *)
(* click changes the round state, its message, the ghost or the survivors. *)
(***************************************************************************)
C7_TerminalStatesAreFinal ==
  [][ (RoundState \in {"GhostWins", "Ended"} /\ lastEvent' \in {"tick", "key", "end"})
        => /\ RoundState' = RoundState
           /\ gameOver' = gameOver
           /\ message' = message
           /\ ghost' = ghost
           /\ survivors' = survivors ]_vars

\* a key was pressed in manual mode after the ghost had won
C7_Witness ==
  /\ RoundState = "GhostWins"
  /\ role = "ghost-controlled"
  /\ lastEvent = "key"

(***************************************************************************)
(* C8 (as claimed): a survivor on the ghost's cell when a tick starts is   *)
(* hit in that tick: with hp >= 2 it is live afterwards with hp - 1 and    *)
(* timer 60, with hp 1 it is removed (so a survivor of hp 3 that stays     *)
(* co-located is removed at the third tick and not earlier).               *)
(***************************************************************************)
C8_ColocatedAtTickStartIsHit ==
  [][ IsTick =>
        \A i \in 1 .. Len(survivors) :
           OnGhost(survivors[i], ghost) =>
             IF survivors[i].hp >= 2
             THEN \E j \in 1 .. Len(survivors') :
                     /\ survivors'[j].id = survivors[i].id
                     /\ survivors'[j].hp = survivors[i].hp - 1
                     /\ survivors'[j].hypnosisTimer = 60
             ELSE survivors[i].id \notin Ids(survivors') ]_vars

(***************************************************************************)
(* C9 (as claimed): an accepted arrow key whose destination is outside the *)
(* grid or a Wall cell leaves the ghost in place, and one whose            *)
(* destination is an in-bounds Open cell puts the ghost on that cell.      *)
(***************************************************************************)
ArrowKeys == {"ArrowUp", "ArrowDown", "ArrowLeft", "ArrowRight"}

DestRow(g, key) ==
  IF key = "ArrowUp" THEN g.row - 1 ELSE IF key = "ArrowDown" THEN g.row + 1 ELSE g.row

DestCol(g, key) ==
  IF key = "ArrowLeft" THEN g.col - 1 ELSE IF key = "ArrowRight" THEN g.col + 1 ELSE g.col

C9_ManualMoveOnlyOntoOpen ==
  [][ \A key \in ArrowKeys :
        (KeyAccepted /\ KeyDown(key)) =>
          IF /\ InBounds(ROWS, COLS, DestRow(ghost, key), DestCol(ghost, key))
             /\ IsOpen(maze, DestRow(ghost, key), DestCol(ghost, key))
          THEN ghost' = [ghost EXCEPT !.row = DestRow(ghost, key), !.col = DestCol(ghost, key)]
          ELSE ghost' = ghost ]_vars

(***************************************************************************)
(* C12: a key press moves the ghost only in a manually controlled round    *)
(* that is InProgress; in an AI round, before any round, and once the      *)
(* round is GhostWins or Ended, a key press changes nothing of the round.  *)
(***************************************************************************)
ManualInProgress == role = "ghost-controlled" /\ RoundState = "InProgress"

C12_IntentOnlyInManualInProgress ==
  [][ lastEvent' = "key" =>
        /\ (ghost' # ghost => ManualInProgress)
        /\ (~ManualInProgress =>
              UNCHANGED <<phase, maze, role, ghost, survivors, gameOver, message,
                          intervalOn, ticks, ghostSpeed>>)
        /\ UNCHANGED <<survivors, gameOver, message, intervalOn, ticks>> ]_vars

\* an arrow key was pressed during an AI round in progress
C12_Witness ==
  /\ RoundState = "InProgress"
  /\ role = "ghost"
  /\ lastEvent = "key"
  /\ ticks >= 1

(***************************************************************************)
(* C13 (as claimed): right after start the live list holds exactly the     *)
(* configured number of survivors, each on an Open cell of the generated   *)
(* grid, none on the ghost's cell, and no two on the same cell.            *)
(***************************************************************************)
C13_StartPlacesDistinctOnOpen ==
  (phase = "playing" /\ lastEvent = "start") =>
    /\ Len(survivors) = MaxSurvivors
    /\ \A i \in 1 .. Len(survivors) :
         /\ OnOpenCell(survivors[i])
         /\ ~OnGhost(survivors[i], ghost)
    /\ \A i, j \in 1 .. Len(survivors) :
         i # j => CellOf(survivors[i]) # CellOf(survivors[j])

\* the part of C13 that does not depend on which cells count as Open
C13_StartPlacesDistinct ==
  (phase = "playing" /\ lastEvent = "start") =>
    \A i, j \in 1 .. Len(survivors) :
      i # j => CellOf(survivors[i]) # CellOf(survivors[j])

(***************************************************************************)
(* The survivor C15 says an AI move selects: of least squared (hence       *)
(* least Euclidean) distance to the ghost, and the earliest such in the    *)
(* live list.                                                              *)
(***************************************************************************)
ClaimedTargetIndex(g, survs) ==
  CHOOSE i \in 1 .. Len(survs) :
    /\ \A j \in 1 .. Len(survs) : DistanceSq(g, survs[i]) <= DistanceSq(g, survs[j])
    /\ \A j \in 1 .. i - 1 : DistanceSq(g, survs[j]) > DistanceSq(g, survs[i])

IsAiTick == IsTick /\ role = "ghost"

Min(a, b) == IF a <= b THEN a ELSE b

(***************************************************************************)
(* C14: an AI move with a non-empty live list puts the ghost on the cell   *)
(* at index min(speed, L) of a shortest path, of length L, from its cell   *)
(* to the selected survivor's cell: it is min(speed, L) steps from where   *)
(* it was and L - min(speed, L) steps from the target; with an empty list  *)
(* the ghost is left as it was.  Steps are counted in the grid the search  *)
(* walks (cells holding 1).                                                *)
(***************************************************************************)
C14_AdvanceAlongShortestPath ==
  [][ IsAiTick =>
        /\ GhostMove(ghost, << >>, maze, ROWS, COLS) = ghost
        /\ Len(survivors) > 0 =>
             LET walk == WalkableCells(maze, ROWS, COLS)
                 from == CellOf(ghost)
                 to   == CellOf(survivors[ClaimedTargetIndex(ghost, survivors)])
             IN /\ to \in ReachableIn(walk, from)
                /\ LET L == MinSteps(walk, from, to)
                       k == Min(ghost.speed, L)
                   IN /\ CellOf(ghost') \in ReachableIn(walk, from)
                      /\ MinSteps(walk, from, CellOf(ghost')) = k
                      /\ MinSteps(walk, CellOf(ghost'), to) = L - k
                      /\ ghost'.speed = ghost.speed ]_vars

\* the first AI move, made at speed 2, has brought the ghost onto a survivor
C14_Witness ==
  /\ phase = "playing"
  /\ role = "ghost"
  /\ ghost.speed = 2
  /\ ticks = 1
  /\ \E i \in 1 .. Len(survivors) :
       OnGhost(survivors[i], ghost) /\ survivors[i].hp = InitialHp - 1

(***************************************************************************)
(* C15: an AI move heads for a live survivor at least straight-line        *)
(* distance from the ghost, whatever the path distances, and among several *)
(* at that distance for the earliest in the live list.                     *)
(***************************************************************************)
C15_TargetsEuclideanNearest ==
  [][ (IsAiTick /\ Len(survivors) > 0) =>
        LET target == survivors[ClaimedTargetIndex(ghost, survivors)]
        IN /\ Nearest(ghost, survivors) = target
           /\ ghost' = Advance(ghost, FindPath(maze, ROWS, COLS, ghost, target), 0) ]_vars

\* after an AI move two survivors on different cells are at the same
\* straight-line distance from the ghost: the next move has to break the tie
C15_Witness ==
  /\ RoundState = "InProgress"
  /\ role = "ghost"
  /\ lastEvent = "tick"
  /\ Len(survivors) = 2
  /\ CellOf(survivors[1]) # CellOf(survivors[2])
  /\ DistanceSq(ghost, survivors[1]) = DistanceSq(ghost, survivors[2])

(***************************************************************************)
(* C18: in every InProgress state of an AI round with a live survivor the  *)
(* breadth-first search of Ghost.move marks the selected survivor's cell   *)
(* visited, so the path reconstruction never meets prevMap's null.         *)
(***************************************************************************)
C18_SearchReachesTarget ==
  (RoundState = "InProgress" /\ role = "ghost" /\ Len(survivors) > 0) =>
    LET target == Nearest(ghost, survivors)
        path   == FindPath(maze, ROWS, COLS, ghost, target)
    IN /\ SearchReaches(maze, ROWS, COLS, ghost, target)
       /\ \A i \in 1 .. Len(path) :
            Search(maze, ROWS, COLS, ghost, target).prevMap[path[i].r][path[i].c] # NullCell

\* an AI round in progress, a tick taken, the selected survivor three or more
\* steps away
C18_Witness ==
  /\ RoundState = "InProgress"
  /\ role = "ghost"
  /\ lastEvent = "tick"
  /\ Len(survivors) > 0
  /\ Len(FindPath(maze, ROWS, COLS, ghost, Nearest(ghost, survivors))) >= 3

(***************************************************************************)
(* C19 (as claimed): a tick moves the ghost (AI round) towards the         *)
(* survivors as they stand before their own move, then moves every         *)
(* survivor, then decides the collisions on the positions after both       *)
(* movements: a survivor that is not on the ghost's cell then is left as   *)
(* moved, one that is on it is hit (removed if that was its last hp), and  *)
(* the round is GhostWins after the tick exactly if the list is then       *)
(* empty.                                                                  *)
(***************************************************************************)
C19_TickOrder ==
  [][ IsTick =>
        /\ ghost' = IF role = "ghost-controlled" THEN ghost
                    ELSE GhostMove(ghost, survivors, maze, ROWS, COLS)
        /\ \E moved \in MoveAll(survivors, maze, ROWS, COLS) :
             \A i \in 1 .. Len(moved) :
               IF ~OnGhost(moved[i], ghost')
               THEN \E j \in 1 .. Len(survivors') : survivors'[j] = moved[i]
               ELSE IF moved[i].hp >= 2
               THEN \E j \in 1 .. Len(survivors') : survivors'[j] = ClaimedHit(moved[i])
               ELSE moved[i].id \notin Ids(survivors')
        /\ (RoundState' = "GhostWins") = (Len(survivors') = 0) ]_vars

(***************************************************************************)
(* C20: a hit sets the survivor's hypnosis timer to 60; in every tick that *)
(* a survivor starts hypnotized its position and move counter are left     *)
(* unchanged and, unless it is hit again in that tick, its timer goes down *)
(* by 1 and it stays hypnotized exactly while the timer is still positive; *)
(* a survivor that starts a tick not hypnotized runs its move cooldown.    *)
(* So a survivor is frozen for the 60 ticks after a hit and free again     *)
(* from the 61st: one that was hit is never free before tick 61 of the     *)
(* round.                                                                  *)
(***************************************************************************)
C20_HypnosisFreezesFor60Ticks ==
  /\ [](phase = "playing" =>
          \A i \in 1 .. Len(survivors) :
            /\ survivors[i].hypnosisTimer \in 0 .. 60
            /\ survivors[i].isHypnotized = (survivors[i].hypnosisTimer > 0)
            /\ (survivors[i].hp < InitialHp /\ ~survivors[i].isHypnotized) => ticks >= 61)
  /\ [][ IsTick =>
           \A i \in 1 .. Len(survivors) : \A j \in 1 .. Len(survivors') :
             survivors'[j].id = survivors[i].id =>
               LET s      == survivors[i]
                   t      == survivors'[j]
                   hitNow == t.hp < s.hp
               IN /\ hitNow => (t.hp = s.hp - 1 /\ t.hypnosisTimer = 60 /\ t.isHypnotized)
                  /\ s.isHypnotized =>
                       /\ t.row = s.row /\ t.col = s.col
                       /\ t.moveCounter = s.moveCounter
                       /\ ~hitNow => /\ t.hypnosisTimer = s.hypnosisTimer - 1
                                     /\ t.isHypnotized = (s.hypnosisTimer - 1 > 0)
                  /\ ~s.isHypnotized =>
                       /\ t.moveCounter = IF s.moveCounter < 30 THEN s.moveCounter + 1 ELSE 0
                       /\ ~hitNow => ~t.isHypnotized ]_vars

\* hit in tick 1, frozen with move counter 1 through tick 61, the survivor has
\* taken up its cooldown again in tick 62
C20_Witness ==
  /\ phase = "playing"
  /\ ticks = 62
  /\ Len(survivors) = 1
  /\ survivors[1].hp = InitialHp - 1
  /\ ~survivors[1].isHypnotized
  /\ survivors[1].moveCounter = 2

(***************************************************************************)
(* C21 (as claimed): a survivor that has never been hypnotized attempts a  *)
(* move exactly once every 30 ticks: a tick is a move attempt exactly if   *)
(* the survivor has not moved in the 29 ticks since its last attempt, and  *)
(* in every other tick it keeps its position.  moveCounter is the number   *)
(* of ticks since the last attempt (it is 0 after an attempt and goes up   *)
(* by 1 in each tick without one).                                         *)
(***************************************************************************)
C21_MoveAttemptEvery30Ticks ==
  [][ IsTick =>
        \A i \in 1 .. Len(survivors) : \A j \in 1 .. Len(survivors') :
          ( /\ survivors'[j].id = survivors[i].id
            /\ survivors[i].hp = InitialHp
            /\ ~survivors[i].isHypnotized ) =>
            LET s         == survivors[i]
                t         == survivors'[j]
                attempted == t.moveCounter = 0
            IN /\ attempted = (s.moveCounter = 29)
               /\ ~attempted => (t.row = s.row /\ t.col = s.col /\ t.moveCounter = s.moveCounter + 1)
      ]_vars

(***************************************************************************)
(* C22: generateMaze returns for all rows, cols >= 5 whatever entries the  *)
(* random choices pick: a loop iteration that does not shorten the list of *)
(* entries opens a cell that was a Wall, and the call reaches its return.  *)
(***************************************************************************)
C22_GenerateMazeTerminates ==
  /\ [][ (phase = "generating" /\ phase' = "generating") =>
           \/ Len(walls') = Len(walls) - 1
           \/ Cardinality(OpenCells(maze', ROWS, COLS)) > Cardinality(OpenCells(maze, ROWS, COLS))
       ]_vars
  /\ <>(phase = "returned")

\* an 8 x 8 call has returned after carving at least three pairs of cells
C22_Witness ==
  /\ phase = "returned"
  /\ ROWS = 8
  /\ COLS = 8
  /\ Cardinality(OpenCells(maze, ROWS, COLS)) >= 5

(***************************************************************************)
(* C23: during a round every live survivor has 1 <= hp <= 3, and within a  *)
(* round no handler raises a survivor's hp, lengthens the live list or     *)
(* brings back a survivor that is no longer in it.                         *)
(***************************************************************************)
C23_HpAndLiveSetOnlyShrink ==
  /\ [](phase = "playing" =>
          \A i \in 1 .. Len(survivors) : survivors[i].hp >= 1 /\ survivors[i].hp <= 3)
  /\ [][ (phase = "playing" /\ lastEvent' # "start") =>
           /\ Len(survivors') <= Len(survivors)
           /\ Ids(survivors') \subseteq Ids(survivors)
           /\ \A i \in 1 .. Len(survivors) : \A j \in 1 .. Len(survivors') :
                survivors'[j].id = survivors[i].id => survivors'[j].hp <= survivors[i].hp
       ]_vars

\* a tick has removed one survivor and left the other with its last hp
C23_Witness ==
  /\ phase = "playing"
  /\ lastEvent = "tick"
  /\ Len(survivors) = 1
  /\ survivors[1].hp = 1

(***************************************************************************)
(* C24: in an AI round a live survivor that has been hit is hypnotized and *)
(* on the ghost's cell; a tick moves neither it nor the ghost; and every   *)
(* survivor that has been hit is eventually out of the live list, unless   *)
(* the round is ended by the end button first.                             *)
(***************************************************************************)
WasHit(s) == s.hp < InitialHp

C24_FirstHitIsFatal ==
  /\ []((phase = "playing" /\ role = "ghost") =>
          \A i \in 1 .. Len(survivors) :
            WasHit(survivors[i]) =>
              (OnGhost(survivors[i], ghost) /\ survivors[i].isHypnotized))
  /\ [][ IsAiTick =>
           \A i \in 1 .. Len(survivors) : \A j \in 1 .. Len(survivors') :
             (WasHit(survivors[i]) /\ survivors'[j].id = survivors[i].id) =>
               /\ CellOf(survivors'[j]) = CellOf(survivors[i])
               /\ CellOf(ghost') = CellOf(ghost) ]_vars
  /\ \A id \in 1 .. ChaseSurvivors :
       (phase = "playing" /\ role = "ghost" /\
          \E i \in 1 .. Len(survivors) : survivors[i].id = id /\ WasHit(survivors[i]))
         ~> (id \notin Ids(survivors) \/ RoundState = "Ended")

\* the ghost has won a round in which the survivor skipped by the collision
\* pass outlived the other one by a tick
C24_Witness ==
  /\ RoundState = "GhostWins"
  /\ COLS = ChaseCols
  /\ ticks >= 4
  /\ lastEvent = "tick"

(***************************************************************************)
(* C25: every AI round, at any ghost speed >= 1 and whatever the           *)
(* survivors' random walks do, eventually is GhostWins, unless it is ended *)
(* by the end button; and the ghost is never held in place: a tick that    *)
(* starts with live survivors, none of them on the ghost's cell, takes the *)
(* ghost to another cell.                                                  *)
(***************************************************************************)
C25_AiRoundEndsInGhostWins ==
  /\ (RoundState = "InProgress" /\ role = "ghost" /\ ghost.speed >= 1)
        ~> (RoundState = "GhostWins" \/ RoundState = "Ended")
  /\ [][ (IsAiTick /\ ghost.speed >= 1 /\ Len(survivors) > 0 /\
           \A i \in 1 .. Len(survivors) : ~OnGhost(survivors[i], ghost))
          => CellOf(ghost') # CellOf(ghost) ]_vars

\* the ghost has won on the long grid after the survivor had walked at tick 31
C25_Witness ==
  /\ RoundState = "GhostWins"
  /\ COLS = LadderCols
  /\ ticks >= 32

====
